---- MODULE Spec2Model ----
(***************************************************************************)
(* Antenna placement solver (starter_kit/solver.py): the greedy            *)
(* constructive generator, the three local-search operators and the        *)
(* accept/rollback loop of Solver.step, over small datasets.               *)
(*                                                                         *)
(* Lists are sequences.  A Python set of small non-negative integers is    *)
(* iterated in ascending order (ids below 8 hash to their own slot), so    *)
(* list(a_set) is the ascending sequence of its elements.                  *)
(*                                                                         *)
(* Aliasing: _load_solution stores the record's own building list in the   *)
(* antenna (no copy), and _try_remove extends a target's list in place.    *)
(* Each live antenna therefore carries `ref`: the position, in the record  *)
(* that step received, of the list its `buildings` is the same object as   *)
(* (0: a list no record held by the caller shares).                        *)
(***************************************************************************)
EXTENDS Integers, Sequences, FiniteSets, TLC

VARIABLES
    buildings,      \* Solver.buildings: the dataset's Building records, in dataset order
    antennas,       \* Solver.antennas: the live antenna list
    uncovered,      \* generate_candidate's local set of uncovered building ids
    fallback,       \* TRUE once generate_candidate took the best_antenna-is-None branch
    solution,       \* the solution record the caller currently holds
    solution_json,  \* step's argument: current content of the record that was passed in
    input0,         \* content of step's argument at the moment of the call
    best_solution,  \* step's best_solution when it is a fresh record
    best_is_input,  \* TRUE while step's best_solution is the argument object itself
    best_cost,      \* step's best_cost
    old_state,      \* step's snapshot taken before the current operator
    improved,       \* what the current operator returned
    op,             \* index (1..3) of the current operator of step
    steps,          \* number of step calls (or of direct operator calls) made so far
    last_op,        \* the method that completed last
    prev_op,        \* the method that completed before it
    prev_antennas,  \* the live antenna list as it was when the last operator was entered
    call,           \* name and arguments of the last call made outside step and generate_candidate
    returned,       \* what that call returned
    pc              \* position of the caller / of the running method

vars == <<buildings, antennas, uncovered, fallback, solution, solution_json, input0,
          best_solution, best_is_input, best_cost, old_state, improved, op, steps,
          last_op, prev_op, prev_antennas, call, returned, pc>>

-----------------------------------------------------------------------------
(* Bounds of the model *)

MaxBuildings == 5        \* buildings in a dataset given to generate_candidate
MaxInputBuildings == 3   \* buildings in a dataset whose solutions are enumerated
MaxAntennas == 3         \* antennas in an enumerated input solution
MaxSteps == 2            \* step calls in one run
MaxCalls == 2            \* operators called one by one on a loaded solution

-----------------------------------------------------------------------------
(* Antenna type table *)

ANTENNA_TYPES ==
    [Nano     |-> [range |-> 50,  capacity |-> 200,  cost_on |-> 5000,  cost_off |-> 6000],
     Spot     |-> [range |-> 100, capacity |-> 800,  cost_on |-> 15000, cost_off |-> 20000],
     Density  |-> [range |-> 150, capacity |-> 5000, cost_on |-> 30000, cost_off |-> 50000],
     MaxRange |-> [range |-> 400, capacity |-> 3500, cost_on |-> 40000, cost_off |-> 50000]]

ANTENNA_ORDER == <<"Nano", "Spot", "Density", "MaxRange">>

CentroidTypes == <<"Spot", "Density", "MaxRange">>

CellSize == 100
SampleLimit == 20
MergeDistance == 200
RemoveLimit == 10

-----------------------------------------------------------------------------
(* Generic helpers *)

Range(s) == {s[i] : i \in DOMAIN s}

Max2(a, b) == IF a >= b THEN a ELSE b

Max3(a, b, c) == Max2(a, Max2(b, c))

Min2(a, b) == IF a <= b THEN a ELSE b

RemoveAt(s, i) == SubSeq(s, 1, i - 1) \o SubSeq(s, i + 1, Len(s))

RECURSIVE SetToList(_)
SetToList(S) ==
    IF S = {} THEN <<>>
    ELSE LET m == CHOOSE x \in S : \A y \in S : x <= y
         IN <<m>> \o SetToList(S \ {m})

RECURSIVE Sorted(_)
Sorted(s) ==
    IF s = <<>> THEN <<>>
    ELSE LET i == CHOOSE i \in DOMAIN s :
                      /\ \A j \in DOMAIN s : s[i] <= s[j]
                      /\ \A j \in 1..(i - 1) : s[j] > s[i]
         IN <<s[i]>> \o Sorted(RemoveAt(s, i))

RECURSIVE SumOver(_, _)
SumOver(s, f) == IF s = <<>> THEN 0 ELSE f[Head(s)] + SumOver(Tail(s), f)

-----------------------------------------------------------------------------
(* Building and dataset *)

Building(i, x, y, p, o, n) ==
    [id |-> i, x |-> x, y |-> y, peak |-> p, offpeak |-> o, night |-> n,
     assigned_antenna |-> -1]

MaxDemand(b) == Max3(b.peak, b.offpeak, b.night)

BuildingIds == {b.id : b \in Range(buildings)}

BuildingMap(bid) == CHOOSE b \in Range(buildings) : b.id = bid

BuildingPositions == {<<b.x, b.y>> : b \in Range(buildings)}

PeakOf == [bid \in BuildingIds |-> BuildingMap(bid).peak]

OffpeakOf == [bid \in BuildingIds |-> BuildingMap(bid).offpeak]

NightOf == [bid \in BuildingIds |-> BuildingMap(bid).night]

DistSq(x1, y1, x2, y2) == (x1 - x2) * (x1 - x2) + (y1 - y2) * (y1 - y2)

-----------------------------------------------------------------------------
(* Spatial index *)

Cell(x, y) == <<x \div CellSize, y \div CellSize>>

\* nearby with a cell radius of radius // cell_size: C12 must fail with it.
NearbyNarrow(x, y, radius) ==
    LET c == <<x \div CellSize, y \div CellSize>>
        cell_radius == radius \div CellSize
    IN {b.id : b \in {bb \in Range(buildings) :
                        /\ (bb.x \div CellSize) - c[1] \in (-cell_radius)..cell_radius
                        /\ (bb.y \div CellSize) - c[2] \in (-cell_radius)..cell_radius}}

\* The ids stored in the cells (cell_x + dx, cell_y + dy), dx and dy in
\* -cell_radius..cell_radius: the buildings whose own cell lies in that square.
Nearby(x, y, radius) ==
    LET c == Cell(x, y)
        cell_radius == (radius \div CellSize) + 1
    IN {b.id : b \in {bb \in Range(buildings) :
                        LET cb == Cell(bb.x, bb.y)
                        IN /\ cb[1] - c[1] \in (-cell_radius)..cell_radius
                           /\ cb[2] - c[2] \in (-cell_radius)..cell_radius}}

-----------------------------------------------------------------------------
(* Antenna *)

CostAt(ant_type, x, y) ==
    IF <<x, y>> \in BuildingPositions
    THEN ANTENNA_TYPES[ant_type].cost_on
    ELSE ANTENNA_TYPES[ant_type].cost_off

AntennaCost(ant) == CostAt(ant.type, ant.x, ant.y)

MaxLoad(ant) == Max3(ant.load_peak, ant.load_offpeak, ant.load_night)

\* can_reach without the distance test: C1 must fail with it.
CanReachAnywhere(ant, b) == TRUE

CanReach(ant, b) ==
    DistSq(ant.x, ant.y, b.x, b.y) <= ANTENNA_TYPES[ant.type].range * ANTENNA_TYPES[ant.type].range

ToDict(ant) == [type |-> ant.type, x |-> ant.x, y |-> ant.y, buildings |-> Sorted(ant.buildings)]

ToSolutionDict(ants) == [i \in DOMAIN ants |-> ToDict(ants[i])]

NewAntenna(ant_type, x, y, building_ids, ref) ==
    [type |-> ant_type, x |-> x, y |-> y, buildings |-> building_ids,
     load_peak |-> SumOver(building_ids, PeakOf),
     load_offpeak |-> SumOver(building_ids, OffpeakOf),
     load_night |-> SumOver(building_ids, NightOf),
     ref |-> ref]

\* _add_antenna keeping the first building only: C3 must fail with it.
AddAntennaFirstOnly(ants, ant_type, x, y, building_ids) ==
    Append(ants, NewAntenna(ant_type, x, y, SubSeq(building_ids, 1, 1), 0))

AddAntenna(ants, ant_type, x, y, building_ids) ==
    Append(ants, NewAntenna(ant_type, x, y, building_ids, 0))

ComputeCost(ants) == SumOver([i \in DOMAIN ants |-> i], [i \in DOMAIN ants |-> AntennaCost(ants[i])])

-----------------------------------------------------------------------------
(* Constructive generator *)

RECURSIVE SortByDemandDesc(_)
SortByDemandDesc(s) ==
    IF s = <<>> THEN <<>>
    ELSE LET key(i) == MaxDemand(BuildingMap(s[i]))
             i == CHOOSE i \in DOMAIN s :
                      /\ \A j \in DOMAIN s : key(j) <= key(i)
                      /\ \A j \in 1..(i - 1) : key(j) < key(i)
         IN <<s[i]>> \o SortByDemandDesc(RemoveAt(s, i))

\* The packing loop stopping at the first building that fits: C11 must fail with it.
RECURSIVE PackFirstFit(_, _, _, _, _, _)
PackFirstFit(reachable, capacity, covered, load_peak, load_offpeak, load_night) ==
    IF reachable = <<>> THEN covered
    ELSE IF MaxDemand(BuildingMap(Head(reachable))) <= capacity
         THEN {Head(reachable)}
         ELSE PackFirstFit(Tail(reachable), capacity, covered, load_peak, load_offpeak, load_night)

\* The packing loop ending at the first building that does not fit: C24 must
\* fail with it.
RECURSIVE PackUntilMisfit(_, _, _, _, _, _)
PackUntilMisfit(reachable, capacity, covered, load_peak, load_offpeak, load_night) ==
    IF reachable = <<>> THEN covered
    ELSE LET b == BuildingMap(Head(reachable))
             new_peak == load_peak + b.peak
             new_offpeak == load_offpeak + b.offpeak
             new_night == load_night + b.night
         IN IF Max3(new_peak, new_offpeak, new_night) <= capacity
            THEN PackUntilMisfit(Tail(reachable), capacity, covered \cup {b.id},
                                 new_peak, new_offpeak, new_night)
            ELSE covered

RECURSIVE Pack(_, _, _, _, _, _)
Pack(reachable, capacity, covered, load_peak, load_offpeak, load_night) ==
    IF reachable = <<>> THEN covered
    ELSE LET b == BuildingMap(Head(reachable))
             new_peak == load_peak + b.peak
             new_offpeak == load_offpeak + b.offpeak
             new_night == load_night + b.night
         IN IF Max3(new_peak, new_offpeak, new_night) <= capacity
            THEN Pack(Tail(reachable), capacity, covered \cup {b.id},
                      new_peak, new_offpeak, new_night)
            ELSE Pack(Tail(reachable), capacity, covered,
                      load_peak, load_offpeak, load_night)

\* The filter of _find_coverable without the distance test: C5 must fail with it.
InReachNearby(x, y, range_sq, candidates, bid) == bid \in candidates

\* The filter leaving out a building at the antenna's own position: C26 must
\* fail with it.
InReachOthers(x, y, range_sq, candidates, bid) ==
    /\ bid \in candidates
    /\ DistSq(x, y, BuildingMap(bid).x, BuildingMap(bid).y) <= range_sq
    /\ DistSq(x, y, BuildingMap(bid).x, BuildingMap(bid).y) > 0

\* The filter of _find_coverable over the buildings the spatial index returned.
InReach(x, y, range_sq, candidates, bid) ==
    /\ bid \in candidates
    /\ DistSq(x, y, BuildingMap(bid).x, BuildingMap(bid).y) <= range_sq

FindCoverable(x, y, ant_type, candidates) ==
    LET spec == ANTENNA_TYPES[ant_type]
        range_sq == spec.range * spec.range
        nearby == Nearby(x, y, spec.range)
        reachable == SetToList({bid \in nearby : InReach(x, y, range_sq, candidates, bid)})
    IN Pack(SortByDemandDesc(reachable), spec.capacity, {}, 0, 0, 0)

Centroid(building_ids) ==
    IF building_ids = {} THEN <<0, 0>>
    ELSE LET ids == SetToList(building_ids)
             x_sum == SumOver(ids, [bid \in BuildingIds |-> BuildingMap(bid).x])
             y_sum == SumOver(ids, [bid \in BuildingIds |-> BuildingMap(bid).y])
         IN <<x_sum \div Cardinality(building_ids), y_sum \div Cardinality(building_ids)>>

BestAntennaTypeForDemand(demand) ==
    IF \E k \in DOMAIN ANTENNA_ORDER : ANTENNA_TYPES[ANTENNA_ORDER[k]].capacity >= demand
    THEN ANTENNA_ORDER[CHOOSE k \in DOMAIN ANTENNA_ORDER :
                           /\ ANTENNA_TYPES[ANTENNA_ORDER[k]].capacity >= demand
                           /\ \A l \in 1..(k - 1) : ANTENNA_TYPES[ANTENNA_ORDER[l]].capacity < demand]
    ELSE "MaxRange"

\* The candidates tried at one point, one per type of `types` with a non-empty cover.
RECURSIVE CandidatesAt(_, _, _, _)
CandidatesAt(x, y, types, unc) ==
    IF types = <<>> THEN <<>>
    ELSE LET covered == FindCoverable(x, y, Head(types), unc)
         IN (IF covered # {}
             THEN <<[type |-> Head(types), x |-> x, y |-> y, covered |-> covered,
                     cost |-> CostAt(Head(types), x, y)]>>
             ELSE <<>>) \o CandidatesAt(x, y, Tail(types), unc)

\* The candidates on every uncovered building, indexed by the building's rank in unc.
RECURSIVE OnBuildingCandidates(_, _)
OnBuildingCandidates(bids, unc) ==
    IF bids = <<>> THEN <<>>
    ELSE LET b == BuildingMap(Head(bids))
         IN <<CandidatesAt(b.x, b.y, ANTENNA_ORDER, unc)>> \o OnBuildingCandidates(Tail(bids), unc)

CentroidCandidates(unc) ==
    IF Cardinality(unc) >= 5
    THEN CandidatesAt(Centroid(unc)[1], Centroid(unc)[2], CentroidTypes, unc)
    ELSE <<>>

RankIn(unc, bid) == Cardinality({c \in unc : c <= bid})

RECURSIVE SampledCandidates(_, _, _)
SampledCandidates(sampled, unc, on_building) ==
    IF sampled = <<>> THEN <<>>
    ELSE on_building[RankIn(unc, Head(sampled))] \o SampledCandidates(Tail(sampled), unc, on_building)

\* _generate_antenna_candidates, given the list rng.sample returned; on_building
\* and on_centroid are OnBuildingCandidates and CentroidCandidates of unc.
GenerateAntennaCandidates(sampled, unc, on_building, on_centroid) ==
    SampledCandidates(sampled, unc, on_building) \o on_centroid

\* rng.sample(list(uncovered), sample_size): any arrangement of sample_size
\* distinct ids; every arrangement of unc when sample_size is len(uncovered).
Samples(unc) ==
    LET sample_size == Min2(Cardinality(unc), SampleLimit)
    IN IF sample_size = Cardinality(unc)
       THEN {[i \in 1..sample_size |-> SetToList(unc)[p[i]]] : p \in Permutations(1..sample_size)}
       ELSE {s \in [1..sample_size -> unc] : \A i, j \in 1..sample_size : i # j => s[i] # s[j]}

\* score < best_score: C10 must fail with it.
ScoreSmaller(c, d) ==
    Cardinality(c.covered) * d.cost < Cardinality(d.covered) * c.cost

\* score >= best_score, which keeps the last of the best candidates: C23 must
\* fail with it.
ScoreNotSmaller(c, d) ==
    Cardinality(c.covered) * d.cost >= Cardinality(d.covered) * c.cost

\* score > best_score with score = len(covered) / cost, on exact ratios.
ScoreGreater(c, d) ==
    Cardinality(c.covered) * d.cost > Cardinality(d.covered) * c.cost

\* The selection loop of generate_candidate: index of the kept candidate, 0 for None.
RECURSIVE PickBest(_, _, _)
PickBest(cands, i, best) ==
    IF i > Len(cands) THEN best
    ELSE IF cands[i].covered = {} THEN PickBest(cands, i + 1, best)
    ELSE IF best = 0 \/ ScoreGreater(cands[i], cands[best]) THEN PickBest(cands, i + 1, i)
    ELSE PickBest(cands, i + 1, best)

RECURSIVE FallbackAntennas(_, _)
FallbackAntennas(ants, bids) ==
    IF bids = <<>> THEN ants
    ELSE LET b == BuildingMap(Head(bids))
         IN FallbackAntennas(AddAntenna(ants, BestAntennaTypeForDemand(MaxDemand(b)), b.x, b.y, <<b.id>>),
                             Tail(bids))

ResetAssignments(blds) == [i \in DOMAIN blds |-> [blds[i] EXCEPT !.assigned_antenna = -1]]

StepVars == <<solution_json, input0, best_solution, best_is_input, best_cost, old_state, improved, op,
              prev_antennas, call, returned>>

Completed(name) == last_op' = name /\ prev_op' = last_op

\* generate_candidate up to the loop.
GenBegin ==
    /\ pc = "start"
    /\ antennas' = <<>>
    /\ buildings' = ResetAssignments(buildings)
    /\ uncovered' = BuildingIds
    /\ fallback' = FALSE
    /\ pc' = "generate"
    /\ UNCHANGED <<solution, steps, last_op, prev_op>>
    /\ UNCHANGED StepVars

\* One iteration of the loop that commits the best candidate.
GenCommit ==
    /\ pc = "generate"
    /\ uncovered # {}
    /\ \E on_building \in {OnBuildingCandidates(SetToList(uncovered), uncovered)},
          on_centroid \in {CentroidCandidates(uncovered)},
          sampled \in Samples(uncovered) :
          LET cands == GenerateAntennaCandidates(sampled, uncovered, on_building, on_centroid)
              best == PickBest(cands, 1, 0)
          IN /\ best # 0
             /\ antennas' = AddAntenna(antennas, cands[best].type, cands[best].x, cands[best].y,
                                       SetToList(cands[best].covered))
             /\ uncovered' = uncovered \ cands[best].covered
    /\ UNCHANGED <<buildings, fallback, solution, steps, last_op, prev_op, pc>>
    /\ UNCHANGED StepVars

\* One iteration of the loop in which no candidate covers anything.
GenFallback ==
    /\ pc = "generate"
    /\ uncovered # {}
    /\ \E on_building \in {OnBuildingCandidates(SetToList(uncovered), uncovered)},
          on_centroid \in {CentroidCandidates(uncovered)},
          sampled \in Samples(uncovered) :
          LET cands == GenerateAntennaCandidates(sampled, uncovered, on_building, on_centroid)
          IN /\ PickBest(cands, 1, 0) = 0
             /\ antennas' = FallbackAntennas(antennas, SetToList(uncovered))
             /\ uncovered' = {}
             /\ fallback' = TRUE
    /\ UNCHANGED <<buildings, solution, steps, last_op, prev_op, pc>>
    /\ UNCHANGED StepVars

\* The loop left although buildings are still uncovered: C25 must fail with it.
GenReturnEarly ==
    /\ pc = "generate"
    /\ solution' = ToSolutionDict(antennas)
    /\ pc' = "idle"
    /\ Completed("generate_candidate")
    /\ UNCHANGED <<buildings, antennas, uncovered, fallback, steps>>
    /\ UNCHANGED StepVars

GenReturn ==
    /\ pc = "generate"
    /\ uncovered = {}
    /\ solution' = ToSolutionDict(antennas)
    /\ pc' = "idle"
    /\ Completed("generate_candidate")
    /\ UNCHANGED <<buildings, antennas, uncovered, fallback, steps>>
    /\ UNCHANGED StepVars

-----------------------------------------------------------------------------
(* Local search: loading, validity, the three operators *)

\* b.assigned_antenna after _load_solution: the 0-based index of the last
\* antenna of the record that lists the building, None (-1) if none does.
AssignedAfterLoad(blds, sol) ==
    [k \in DOMAIN blds |->
        LET holders == {i \in DOMAIN sol : blds[k].id \in Range(sol[i].buildings)}
        IN [blds[k] EXCEPT !.assigned_antenna =
                IF holders = {} THEN -1
                ELSE (CHOOSE i \in holders : \A h \in holders : h <= i) - 1]]

\* The antenna list _load_solution builds; with `aliased` the lists are those
\* of the record step received.
LoadSolution(sol, aliased) ==
    [i \in DOMAIN sol |->
        NewAntenna(sol[i].type, sol[i].x, sol[i].y, sol[i].buildings, IF aliased THEN i ELSE 0)]

RECURSIVE Flatten(_)
Flatten(lists) == IF lists = <<>> THEN <<>> ELSE Head(lists) \o Flatten(Tail(lists))

\* _is_valid_solution without the count of assigned buildings: C30 must fail with it.
IsValidSolutionUncounted(ants) ==
    LET all == Flatten([i \in DOMAIN ants |-> ants[i].buildings])
    IN /\ \A i, j \in DOMAIN all : i # j => all[i] # all[j]
       /\ \A i \in DOMAIN ants :
             /\ MaxLoad(ants[i]) <= ANTENNA_TYPES[ants[i].type].capacity
             /\ \A bid \in Range(ants[i].buildings) : CanReach(ants[i], BuildingMap(bid))

IsValidSolution(ants) ==
    LET all == Flatten([i \in DOMAIN ants |-> ants[i].buildings])
    IN /\ \A i, j \in DOMAIN all : i # j => all[i] # all[j]
       /\ Cardinality(Range(all)) = Len(buildings)
       /\ \A i \in DOMAIN ants :
             /\ MaxLoad(ants[i]) <= ANTENNA_TYPES[ants[i].type].capacity
             /\ \A bid \in Range(ants[i].buildings) : CanReach(ants[i], BuildingMap(bid))

TypeIndex(ant_type) == CHOOSE k \in DOMAIN ANTENNA_ORDER : ANTENNA_ORDER[k] = ant_type

AllReachable(x, y, ant_type, bids) ==
    \A bid \in Range(bids) :
        DistSq(x, y, BuildingMap(bid).x, BuildingMap(bid).y)
            <= ANTENNA_TYPES[ant_type].range * ANTENNA_TYPES[ant_type].range

\* The inner loop stepping down one fitting type at a time: C8 must fail with it.
OptimizeTargetNearest(ant) ==
    LET fits == {j \in 1..(TypeIndex(ant.type) - 1) :
                    /\ ANTENNA_TYPES[ANTENNA_ORDER[j]].capacity >= MaxLoad(ant)
                    /\ AllReachable(ant.x, ant.y, ANTENNA_ORDER[j], ant.buildings)}
    IN IF fits = {} THEN 0 ELSE CHOOSE j \in fits : \A k \in fits : j >= k

\* The inner loop of _try_optimize_type for one antenna: the first type before
\* the current one that has the capacity and the range is taken, whatever it costs.
OptimizeTarget(ant) ==
    LET fits == {j \in 1..(TypeIndex(ant.type) - 1) :
                    /\ ANTENNA_TYPES[ANTENNA_ORDER[j]].capacity >= MaxLoad(ant)
                    /\ AllReachable(ant.x, ant.y, ANTENNA_ORDER[j], ant.buildings)}
    IN IF fits = {} THEN 0 ELSE CHOOSE j \in fits : \A k \in fits : j <= k

TryOptimizeType(ants) ==
    LET new_type(i) == IF OptimizeTarget(ants[i]) = 0 THEN ants[i].type
                       ELSE ANTENNA_ORDER[OptimizeTarget(ants[i])]
    IN [antennas |-> [i \in DOMAIN ants |-> [ants[i] EXCEPT !.type = new_type(i)]],
        improved |-> \E i \in DOMAIN ants :
                        CostAt(new_type(i), ants[i].x, ants[i].y) < AntennaCost(ants[i])]

\* The last type of ANTENNA_ORDER with enough capacity: C9 must fail with it.
\* The first type of ANTENNA_ORDER whatever the combined load: C20 must fail
\* with it.
MergeTypeIndexAnyCapacity(max_load) == IF max_load >= 0 THEN 1 ELSE 0

MergeTypeIndexLast(max_load) ==
    LET enough == {k \in DOMAIN ANTENNA_ORDER : ANTENNA_TYPES[ANTENNA_ORDER[k]].capacity >= max_load}
    IN IF enough = {} THEN 0 ELSE CHOOSE k \in enough : \A l \in enough : k >= l

\* The type _try_merge settles on for a combined load: the first of
\* ANTENNA_ORDER with enough capacity (0: none has).
MergeTypeIndex(max_load) ==
    LET enough == {k \in DOMAIN ANTENNA_ORDER : ANTENNA_TYPES[ANTENNA_ORDER[k]].capacity >= max_load}
    IN IF enough = {} THEN 0 ELSE CHOOSE k \in enough : \A l \in enough : k <= l

MergedBuildings(ants, i, j) == ants[i].buildings \o ants[j].buildings

MergeCentroid(ants, i, j) == Centroid(Range(MergedBuildings(ants, i, j)))

MergeMaxLoad(ants, i, j) ==
    Max3(ants[i].load_peak + ants[j].load_peak,
         ants[i].load_offpeak + ants[j].load_offpeak,
         ants[i].load_night + ants[j].load_night)

\* The body of _try_merge's double loop for the pair (i, j): TRUE when it merges.
PairMerges(ants, i, j) ==
    LET k == MergeTypeIndex(MergeMaxLoad(ants, i, j))
        c == MergeCentroid(ants, i, j)
    IN /\ DistSq(ants[i].x, ants[i].y, ants[j].x, ants[j].y) <= MergeDistance * MergeDistance
       /\ k # 0
       /\ AllReachable(c[1], c[2], ANTENNA_ORDER[k], MergedBuildings(ants, i, j))
       /\ CostAt(ANTENNA_ORDER[k], c[1], c[2]) < AntennaCost(ants[i]) + AntennaCost(ants[j])

\* The scan keeping the last pair that merges instead of the first: C19 must
\* fail with it.
PairAfter(p, q) == p[1] > q[1] \/ (p[1] = q[1] /\ p[2] >= q[2])

PairBefore(p, q) == p[1] < q[1] \/ (p[1] = q[1] /\ p[2] <= q[2])

TryMerge(ants) ==
    LET merging == {p \in (DOMAIN ants) \X (DOMAIN ants) : p[1] < p[2] /\ PairMerges(ants, p[1], p[2])}
    IN IF Len(ants) < 2 \/ merging = {}
       THEN [antennas |-> ants, improved |-> FALSE]
       ELSE LET p == CHOOSE p \in merging : \A q \in merging : PairBefore(p, q)
                i == p[1]
                j == p[2]
                c == MergeCentroid(ants, i, j)
                k == MergeTypeIndex(MergeMaxLoad(ants, i, j))
            IN [antennas |-> AddAntenna(RemoveAt(RemoveAt(ants, j), i), ANTENNA_ORDER[k],
                                        c[1], c[2], MergedBuildings(ants, i, j)),
                improved |-> TRUE]

\* temp_loads of _try_remove for candidate i.
TempLoads(ants, i) ==
    [j \in (DOMAIN ants) \ {i} |->
        [peak |-> ants[j].load_peak, offpeak |-> ants[j].load_offpeak, night |-> ants[j].load_night]]

NewMax(temp_loads, j, b) ==
    Max3(temp_loads[j].peak + b.peak, temp_loads[j].offpeak + b.offpeak, temp_loads[j].night + b.night)

\* The target loop checking capacity against the antennas' original loads
\* instead of the running temporary loads: C21 must fail with it.
BestTargetOriginalLoads(ants, i, temp_loads, b) ==
    LET capacity(j) == ANTENNA_TYPES[ants[j].type].capacity
        original(j) == Max3(ants[j].load_peak + b.peak, ants[j].load_offpeak + b.offpeak,
                            ants[j].load_night + b.night)
        able == {j \in (DOMAIN ants) \ {i} : CanReach(ants[j], b) /\ original(j) <= capacity(j)}
        margin(j) == capacity(j) - original(j)
    IN IF able = {} THEN 0
       ELSE CHOOSE j \in able :
                \A k \in able : margin(j) > margin(k) \/ (margin(j) = margin(k) /\ j <= k)

\* The target loop of _try_remove for one building: margin > best_margin keeps
\* the first antenna of the largest margin (0: best_target is None).
BestTarget(ants, i, temp_loads, b) ==
    LET capacity(j) == ANTENNA_TYPES[ants[j].type].capacity
        able == {j \in (DOMAIN ants) \ {i} :
                    CanReach(ants[j], b) /\ NewMax(temp_loads, j, b) <= capacity(j)}
        margin(j) == capacity(j) - NewMax(temp_loads, j, b)
    IN IF able = {} THEN 0
       ELSE CHOOSE j \in able :
                \A k \in able : margin(j) > margin(k) \/ (margin(j) = margin(k) /\ j <= k)

\* The planning loop over ant.buildings: the (bid, target) pairs in the order
\* they were recorded; ok is FALSE when the loop stopped at a building without target.
RECURSIVE PlanRemove(_, _, _, _, _)
PlanRemove(ants, i, bids, temp_loads, redistribution) ==
    IF bids = <<>> THEN [ok |-> TRUE, redistribution |-> redistribution]
    ELSE LET b == BuildingMap(Head(bids))
             best_target == BestTarget(ants, i, temp_loads, b)
         IN IF best_target = 0
            THEN [ok |-> FALSE, redistribution |-> redistribution]
            ELSE PlanRemove(ants, i, Tail(bids),
                            [temp_loads EXCEPT
                                ![best_target] = [peak |-> @.peak + b.peak,
                                                  offpeak |-> @.offpeak + b.offpeak,
                                                  night |-> @.night + b.night]],
                            Append(redistribution, [bid |-> b.id, target |-> best_target]))

RemovePlan(ants, i) == PlanRemove(ants, i, ants[i].buildings, TempLoads(ants, i), <<>>)

\* len(redistribution) == len(ant.buildings): the dict has one key per distinct bid.
Removable(ants, i) ==
    /\ RemovePlan(ants, i).ok
    /\ Cardinality(Range(ants[i].buildings)) = Len(ants[i].buildings)

RECURSIVE MovedTo(_, _)
MovedTo(redistribution, target) ==
    IF redistribution = <<>> THEN <<>>
    ELSE (IF Head(redistribution).target = target THEN <<Head(redistribution).bid>> ELSE <<>>)
         \o MovedTo(Tail(redistribution), target)

\* pop(i) and the extension of the targets' lists without the update of their
\* loads: C6 must fail with it.
ApplyRemoveStaleLoads(ants, i) ==
    LET plan == RemovePlan(ants, i).redistribution
    IN RemoveAt([j \in DOMAIN ants |-> [ants[j] EXCEPT !.buildings = @ \o MovedTo(plan, j)]], i)

\* The antenna list after pop(i) and the update of every target.
ApplyRemove(ants, i) ==
    LET plan == RemovePlan(ants, i).redistribution
        updated == [j \in DOMAIN ants |->
                       LET moved == MovedTo(plan, j)
                       IN [ants[j] EXCEPT
                              !.buildings = @ \o moved,
                              !.load_peak = @ + SumOver(moved, PeakOf),
                              !.load_offpeak = @ + SumOver(moved, OffpeakOf),
                              !.load_night = @ + SumOver(moved, NightOf)]]
    IN RemoveAt(updated, i)

\* The candidates whose every building finds a target.
RemovableSet(ants) == {i \in DOMAIN ants : Removable(ants, i)}

\* _try_remove trying every index of the shuffled order: C22 must fail with it.
TryRemoveNoLimit(ants, indices, removable) ==
    LET hits == {k \in DOMAIN indices : indices[k] \in removable}
    IN IF Len(ants) <= 1 \/ hits = {}
       THEN [antennas |-> ants, improved |-> FALSE]
       ELSE LET k == CHOOSE k \in hits : \A l \in hits : k <= l
            IN [antennas |-> ApplyRemove(ants, indices[k]), improved |-> TRUE]

\* _try_remove applying the removal of its first hit and returning False all
\* the same: C18 must fail with it.
TryRemoveUnreported(ants, indices, removable) ==
    LET tried == SubSeq(indices, 1, Min2(RemoveLimit, Len(indices)))
        hits == {k \in DOMAIN tried : tried[k] \in removable}
    IN IF Len(ants) <= 1 \/ hits = {}
       THEN [antennas |-> ants, improved |-> FALSE]
       ELSE LET k == CHOOSE k \in hits : \A l \in hits : k <= l
            IN [antennas |-> ApplyRemove(ants, tried[k]), improved |-> FALSE]

\* _try_remove, given the order rng.shuffle left in `indices`; removable is
\* RemovableSet(ants).
TryRemove(ants, indices, removable) ==
    LET tried == SubSeq(indices, 1, Min2(RemoveLimit, Len(indices)))
        hits == {k \in DOMAIN tried : tried[k] \in removable}
    IN IF Len(ants) <= 1 \/ hits = {}
       THEN [antennas |-> ants, improved |-> FALSE]
       ELSE LET k == CHOOSE k \in hits : \A l \in hits : k <= l
            IN [antennas |-> ApplyRemove(ants, tried[k]), improved |-> TRUE]

\* rng.shuffle(indices): any order of 1..n.
Shuffles(n) == Permutations(1..n)

\* The record step received, after the in-place list updates of the live antennas.
Aliased(sol, ants) ==
    [r \in DOMAIN sol |->
        IF \E i \in DOMAIN ants : ants[i].ref = r
        THEN [sol[r] EXCEPT !.buildings = ants[CHOOSE i \in DOMAIN ants : ants[i].ref = r].buildings]
        ELSE sol[r]]

-----------------------------------------------------------------------------
(* Solver.step: load, then operator / judgement for each of the three operators *)

GenVars == <<uncovered, fallback, call, returned>>

StepBegin ==
    /\ pc = "idle"
    /\ steps < MaxSteps
    /\ solution_json' = solution
    /\ input0' = solution
    /\ \E loaded \in {LoadSolution(solution, TRUE)} :
          /\ antennas' = loaded
          /\ best_cost' = ComputeCost(loaded)
          /\ prev_antennas' = loaded
    /\ buildings' = AssignedAfterLoad(buildings, solution)
    /\ best_is_input' = TRUE
    /\ best_solution' = <<>>
    /\ old_state' = <<>>
    /\ improved' = FALSE
    /\ op' = 1
    /\ pc' = "operator"
    /\ Completed("_load_solution")
    /\ UNCHANGED <<solution, steps>>
    /\ UNCHANGED GenVars

StepOptimizeType ==
    /\ pc = "operator"
    /\ op = 1
    /\ old_state' = ToSolutionDict(antennas)
    /\ prev_antennas' = antennas
    /\ \E result \in {TryOptimizeType(antennas)} :
          /\ antennas' = result.antennas
          /\ improved' = result.improved
    /\ pc' = "judge"
    /\ Completed("_try_optimize_type")
    /\ UNCHANGED <<buildings, solution, solution_json, input0, best_solution, best_is_input,
                   best_cost, op, steps>>
    /\ UNCHANGED GenVars

StepMerge ==
    /\ pc = "operator"
    /\ op = 2
    /\ old_state' = ToSolutionDict(antennas)
    /\ prev_antennas' = antennas
    /\ \E result \in {TryMerge(antennas)} :
          /\ antennas' = result.antennas
          /\ improved' = result.improved
    /\ pc' = "judge"
    /\ Completed("_try_merge")
    /\ UNCHANGED <<buildings, solution, solution_json, input0, best_solution, best_is_input,
                   best_cost, op, steps>>
    /\ UNCHANGED GenVars

StepRemove ==
    /\ pc = "operator"
    /\ op = 3
    /\ \E removable \in {RemovableSet(antennas)}, indices \in Shuffles(Len(antennas)) :
       \E result \in {TryRemove(antennas, indices, removable)} :
          /\ antennas' = result.antennas
          /\ improved' = result.improved
          /\ solution_json' = Aliased(solution_json, result.antennas)
    /\ old_state' = ToSolutionDict(antennas)
    /\ prev_antennas' = antennas
    /\ pc' = "judge"
    /\ Completed("_try_remove")
    /\ UNCHANGED <<buildings, solution, input0, best_solution, best_is_input, best_cost, op, steps>>
    /\ UNCHANGED GenVars

\* The else branches of step without self._load_solution(old_state): C14
\* must fail with it.
KeptAfterRejection(ants, old) == ants

\* The live antennas after the else branches of step: old_state loaded again.
RestoredAfterRejection(ants, old) == LoadSolution(old, FALSE)

Accepted ==
    /\ improved
    /\ IsValidSolution(antennas)
    /\ ComputeCost(antennas) < best_cost
    /\ ComputeCost(antennas) > 0

\* The rest of the loop body once the operator has returned.
StepJudge ==
    /\ pc = "judge"
    /\ IF Accepted
       THEN /\ best_cost' = ComputeCost(antennas)
            /\ best_solution' = ToSolutionDict(antennas)
            /\ best_is_input' = FALSE
            /\ UNCHANGED <<antennas, buildings, last_op, prev_op>>
       ELSE IF improved
       THEN /\ antennas' = RestoredAfterRejection(antennas, old_state)
            /\ buildings' = AssignedAfterLoad(buildings, old_state)
            /\ Completed("_load_solution")
            /\ UNCHANGED <<best_cost, best_solution, best_is_input>>
       ELSE UNCHANGED <<antennas, buildings, last_op, prev_op, best_cost, best_solution, best_is_input>>
    /\ op' = op + 1
    /\ pc' = IF op = 3 THEN "return" ELSE "operator"
    /\ UNCHANGED <<solution, solution_json, input0, old_state, improved, steps, prev_antennas>>
    /\ UNCHANGED GenVars

StepReturn ==
    /\ pc = "return"
    /\ solution' = IF best_is_input THEN solution_json ELSE best_solution
    /\ steps' = steps + 1
    /\ best_solution' = <<>>
    /\ best_is_input' = FALSE
    /\ best_cost' = 0
    /\ old_state' = <<>>
    /\ improved' = FALSE
    /\ op' = 0
    /\ pc' = "idle"
    /\ Completed("step")
    /\ UNCHANGED <<buildings, antennas, solution_json, input0, prev_antennas>>
    /\ UNCHANGED GenVars

-----------------------------------------------------------------------------
(* The methods called one by one on a loaded solution *)

CallLoadSolution ==
    /\ pc = "idle"
    /\ steps = 0
    /\ solution_json' = solution
    /\ input0' = solution
    /\ \E loaded \in {LoadSolution(solution, TRUE)} :
          /\ antennas' = loaded
          /\ prev_antennas' = loaded
    /\ buildings' = AssignedAfterLoad(buildings, solution)
    /\ pc' = "loaded"
    /\ Completed("_load_solution")
    /\ UNCHANGED <<solution, best_solution, best_is_input, best_cost, old_state, improved, op, steps>>
    /\ UNCHANGED GenVars

CallTryOptimizeType ==
    /\ pc = "loaded"
    /\ steps < MaxCalls
    /\ steps' = steps + 1
    /\ prev_antennas' = antennas
    /\ \E result \in {TryOptimizeType(antennas)} :
          /\ antennas' = result.antennas
          /\ improved' = result.improved
    /\ Completed("_try_optimize_type")
    /\ UNCHANGED <<buildings, solution, solution_json, input0, best_solution, best_is_input,
                   best_cost, old_state, op, pc>>
    /\ UNCHANGED GenVars

CallTryMerge ==
    /\ pc = "loaded"
    /\ steps < MaxCalls
    /\ steps' = steps + 1
    /\ prev_antennas' = antennas
    /\ \E result \in {TryMerge(antennas)} :
          /\ antennas' = result.antennas
          /\ improved' = result.improved
    /\ Completed("_try_merge")
    /\ UNCHANGED <<buildings, solution, solution_json, input0, best_solution, best_is_input,
                   best_cost, old_state, op, pc>>
    /\ UNCHANGED GenVars

CallTryRemove ==
    /\ pc = "loaded"
    /\ steps < MaxCalls
    /\ steps' = steps + 1
    /\ \E removable \in {RemovableSet(antennas)}, indices \in Shuffles(Len(antennas)) :
       \E result \in {TryRemove(antennas, indices, removable)} :
          /\ antennas' = result.antennas
          /\ improved' = result.improved
          /\ solution_json' = Aliased(solution_json, result.antennas)
    /\ prev_antennas' = antennas
    /\ Completed("_try_remove")
    /\ UNCHANGED <<buildings, solution, input0, best_solution, best_is_input,
                   best_cost, old_state, op, pc>>
    /\ UNCHANGED GenVars

-----------------------------------------------------------------------------
(* Datasets and input solutions *)

\* Five buildings around (100, 99) more than 100 apart from each other, a
\* building no type can serve and a small building 60 away from building 1.
GenPool ==
    {Building(1, 100, 195, 150, 10, 10),
     Building(2, 10, 129, 10, 150, 10),
     Building(3, 44, 23, 100, 100, 100),
     Building(4, 156, 23, 160, 160, 160),
     Building(5, 190, 129, 150, 150, 150),
     Building(6, 500, 129, 6000, 6000, 6000),
     Building(7, 100, 135, 20, 20, 20)}

\* Two small buildings 30 apart with a building only Spot can serve 30 away,
\* a building no type can serve, and two remote buildings 40 apart whose
\* demands peak in different periods.
SparsePool ==
    {Building(0, 1000, 0, 10, 10, 10),
     Building(1, 1030, 0, 300, 300, 300),
     Building(2, 0, 0, 150, 10, 10),
     Building(3, 500, 0, 6000, 6000, 6000),
     Building(4, 1000, 30, 10, 10, 10),
     Building(5, 0, 40, 10, 150, 10)}

\* Four buildings on a line, 50, 100 and 300 away from the first.
StepPool ==
    {Building(1, 0, 0, 150, 10, 10),
     Building(2, 50, 0, 40, 100, 40),
     Building(3, 100, 0, 640, 640, 640),
     Building(4, 300, 0, 3000, 100, 100)}

RECURSIVE ById(_)
ById(S) ==
    IF S = {} THEN <<>>
    ELSE LET b == CHOOSE b \in S : \A c \in S : b.id <= c.id
         IN <<b>> \o ById(S \ {b})

Datasets(pool, max) == {ById(S) : S \in {T \in SUBSET pool : Cardinality(T) \in 1..max}}

OffBuildingShift == 10

Reverse(s) == [i \in DOMAIN s |-> s[Len(s) + 1 - i]]

\* The solutions over dataset blds with n antennas: every antenna serves a
\* non-empty set of buildings that no other antenna serves (a building may be
\* left out), has any type, and stands on its first building or beside it; the
\* antennas are listed by ascending or by descending first building.
SolutionsOf(blds, n) ==
    LET ids == {b.id : b \in Range(blds)}
        first_id(f, i) == CHOOSE bid \in ids : f[bid] = i /\ \A c \in ids : f[c] = i => bid <= c
        first(f, i) == CHOOSE b \in Range(blds) : b.id = first_id(f, i)
        ascending(f) == [i \in 1..n |-> first_id(f, i)]
    IN {IF rev THEN Reverse(sol) ELSE sol :
          rev \in (IF n >= 2 THEN BOOLEAN ELSE {FALSE}),
          sol \in {[i \in 1..n |->
                      [type |-> t[i],
                       x |-> first(f, i).x + (IF off[i] THEN OffBuildingShift ELSE 0),
                       y |-> first(f, i).y,
                       buildings |-> SetToList({bid \in ids : f[bid] = i})]] :
                    f \in {g \in [ids -> 0..n] :
                             /\ \A i \in 1..n : \E bid \in ids : g[bid] = i
                             /\ \A i \in 1..(n - 1) : first_id(g, i) < first_id(g, i + 1)},
                    t \in [1..n -> Range(ANTENNA_ORDER)],
                    off \in [1..n -> BOOLEAN]}}

InputSolutions(blds) == UNION {SolutionsOf(blds, n) : n \in 0..MaxAntennas}

InitLocals ==
    /\ antennas = <<>>
    /\ uncovered = {}
    /\ fallback = FALSE
    /\ solution_json = <<>>
    /\ input0 = <<>>
    /\ best_solution = <<>>
    /\ best_is_input = FALSE
    /\ best_cost = 0
    /\ old_state = <<>>
    /\ improved = FALSE
    /\ op = 0
    /\ steps = 0
    /\ last_op = "none"
    /\ prev_op = "none"
    /\ prev_antennas = <<>>
    /\ call = [fn |-> "none"]
    /\ returned = <<>>

\* A solver constructed on a dataset, before generate_candidate.
Init ==
    /\ buildings \in Datasets(GenPool, MaxBuildings) \cup Datasets(SparsePool, MaxBuildings)
    /\ solution = <<>>
    /\ pc = "start"
    /\ InitLocals

\* A solver constructed on a dataset, and a solution record to improve.
InitInput ==
    /\ buildings \in Datasets(StepPool, MaxInputBuildings)
    /\ solution \in InputSolutions(buildings)
    /\ pc = "idle"
    /\ InitLocals

Step == StepBegin \/ StepOptimizeType \/ StepMerge \/ StepRemove \/ StepJudge \/ StepReturn

\* optimized_solution: generate_candidate, then step after step.
Next == GenBegin \/ GenCommit \/ GenFallback \/ GenReturn \/ Step

Spec == Init /\ [][Next]_vars

\* step on any input solution.
SpecStep == InitInput /\ [][Step]_vars

NextCalls == CallLoadSolution \/ CallTryOptimizeType \/ CallTryMerge \/ CallTryRemove

\* The operators called directly, in any order, on any loaded solution.
SpecCalls == InitInput /\ [][NextCalls]_vars

-----------------------------------------------------------------------------
(* The spatial index queried directly *)

\* Buildings on both sides of cell borders, one of them at negative coordinates.
IndexPool ==
    {Building(0, 0, 0, 10, 10, 10),
     Building(1, 99, 99, 10, 10, 10),
     Building(2, 100, 100, 10, 10, 10),
     Building(3, -1, -50, 10, 10, 10),
     Building(4, 250, 30, 10, 10, 10),
     Building(5, 400, 400, 10, 10, 10)}

QueryCoords == {-101, -1, 0, 99, 100, 201}

Radii == {0, 1, 99, 100, 101, 250}

\* A solver constructed on a dataset: every building was added to the index.
InitIndex ==
    /\ buildings \in Datasets(IndexPool, MaxInputBuildings)
    /\ solution = <<>>
    /\ pc = "idle"
    /\ InitLocals

\* self.spatial.nearby(x, y, radius)
CallNearby ==
    /\ pc = "idle"
    /\ \E x \in QueryCoords, y \in QueryCoords, radius \in Radii :
          /\ call' = [fn |-> "nearby", x |-> x, y |-> y, radius |-> radius]
          /\ returned' = Nearby(x, y, radius)
    /\ Completed("nearby")
    /\ UNCHANGED <<buildings, antennas, uncovered, fallback, solution, solution_json, input0,
                   best_solution, best_is_input, best_cost, old_state, improved, op, steps,
                   prev_antennas, pc>>

SpecIndex == InitIndex /\ [][CallNearby]_vars

-----------------------------------------------------------------------------
(* methods/base.py and methods/baseline_place_on_buildings.py *)

ANTENNA_TYPES_BY_CAPACITY == <<"Nano", "Spot", "MaxRange", "Density">>

IsInRange(antenna_x, antenna_y, building_x, building_y, antenna_range) ==
    DistSq(antenna_x, antenna_y, building_x, building_y) <= antenna_range * antenna_range

\* sorted(ids, key, reverse=True): by descending key, equal keys in their order in s.
RECURSIVE SortDescByKey(_, _)
SortDescByKey(s, key) ==
    IF s = <<>> THEN <<>>
    ELSE LET i == CHOOSE i \in DOMAIN s :
                      /\ \A j \in DOMAIN s : key[s[j]] <= key[s[i]]
                      /\ \A j \in 1..(i - 1) : key[s[j]] < key[s[i]]
         IN <<s[i]>> \o SortDescByKey(RemoveAt(s, i), key)

DatasetIds == [i \in DOMAIN buildings |-> buildings[i].id]

DemandOf == [bid \in BuildingIds |-> MaxDemand(BuildingMap(bid))]

\* The ids of the uncovered buildings within range of the antenna, in dataset order.
MethodCandidates(antenna_x, antenna_y, antenna_type, covered) ==
    LET take == {i \in DOMAIN buildings :
                    /\ buildings[i].id \notin covered
                    /\ IsInRange(antenna_x, antenna_y, buildings[i].x, buildings[i].y,
                                 ANTENNA_TYPES[antenna_type].range)}
        indices == SetToList(take)
    IN [k \in DOMAIN indices |-> buildings[indices[k]].id]

\* The greedy packing loop of the methods over the sorted candidates.
RECURSIVE MethodPack(_, _, _, _, _, _)
MethodPack(candidates, antenna_capacity, assignment, total_peak, total_off_peak, total_night) ==
    IF candidates = <<>> THEN assignment
    ELSE LET cb == BuildingMap(Head(candidates))
             new_peak == total_peak + cb.peak
             new_off_peak == total_off_peak + cb.offpeak
             new_night == total_night + cb.night
         IN IF Max3(new_peak, new_off_peak, new_night) <= antenna_capacity
            THEN MethodPack(Tail(candidates), antenna_capacity, Append(assignment, cb.id),
                            new_peak, new_off_peak, new_night)
            ELSE MethodPack(Tail(candidates), antenna_capacity, assignment,
                            total_peak, total_off_peak, total_night)

\* The assignment the baseline computes for one type at the target's position.
BaselineAssignment(b, antenna_type, covered) ==
    MethodPack(SortDescByKey(MethodCandidates(b.x, b.y, antenna_type, covered), DemandOf),
               ANTENNA_TYPES[antenna_type].capacity, <<>>, 0, 0, 0)

\* The antenna the baseline creates for an uncovered building: the first type
\* whose assignment holds the building, else MaxRange for the building alone.
BaselineAntenna(bid, covered) ==
    LET b == BuildingMap(bid)
        works == {k \in DOMAIN ANTENNA_TYPES_BY_CAPACITY :
                     bid \in Range(BaselineAssignment(b, ANTENNA_TYPES_BY_CAPACITY[k], covered))}
    IN IF works = {}
       THEN [type |-> "MaxRange", x |-> b.x, y |-> b.y, buildings |-> <<bid>>]
       ELSE LET k == CHOOSE k \in works : \A l \in works : k <= l
            IN [type |-> ANTENNA_TYPES_BY_CAPACITY[k], x |-> b.x, y |-> b.y,
                buildings |-> BaselineAssignment(b, ANTENNA_TYPES_BY_CAPACITY[k], covered)]

CoveredBy(ants) == UNION {Range(ants[i].buildings) : i \in DOMAIN ants}

\* The main loop of the baseline over sorted_buildings.
RECURSIVE BaselineLoop(_, _)
BaselineLoop(sorted_buildings, ants) ==
    IF sorted_buildings = <<>> THEN ants
    ELSE IF Head(sorted_buildings) \in CoveredBy(ants)
         THEN BaselineLoop(Tail(sorted_buildings), ants)
         ELSE BaselineLoop(Tail(sorted_buildings),
                           Append(ants, BaselineAntenna(Head(sorted_buildings), CoveredBy(ants))))

\* The emergency fallback of the methods: MaxRange on every building left uncovered.
EmergencyFallback(ants) ==
    LET left == SetToList(BuildingIds \ CoveredBy(ants))
    IN ants \o [k \in DOMAIN left |->
                  [type |-> "MaxRange", x |-> BuildingMap(left[k]).x, y |-> BuildingMap(left[k]).y,
                   buildings |-> <<left[k]>>]]

BaselineSolve == EmergencyFallback(BaselineLoop(SortDescByKey(DatasetIds, DemandOf), <<>>))

(* methods/randomized_greedy.py *)

PeakKey == [bid \in BuildingIds |-> BuildingMap(bid).peak]

\* The orders sorted_buildings can take: by peak, by max demand, or any shuffle.
SortedBuildings(ordering) ==
    IF ordering = "peak" THEN {SortDescByKey(DatasetIds, PeakKey)}
    ELSE IF ordering = "random"
         THEN {[k \in DOMAIN DatasetIds |-> DatasetIds[p[k]]] :
                  p \in Permutations(DOMAIN DatasetIds)}
         ELSE {SortDescByKey(DatasetIds, DemandOf)}

\* The orders the candidates can take once sorted by demand + rng.uniform(0, 10):
\* a candidate can only come before one whose demand is less than 10 higher.
PriorityOrders(candidates) ==
    {o \in {[k \in DOMAIN candidates |-> candidates[p[k]]] :
               p \in Permutations(DOMAIN candidates)} :
        \A i, j \in DOMAIN o : i < j => DemandOf[o[j]] - DemandOf[o[i]] < 10}

\* The types tried in turn: the assignment holding the target with the most
\* buildings wins, and the scan stops at a Nano that holds the target.
RECURSIVE RgScan(_, _, _, _)
RgScan(k, bid, assignments, best) ==
    IF k > Len(ANTENNA_TYPES_BY_CAPACITY) THEN best
    ELSE IF bid \in Range(assignments[k]) /\ Len(assignments[k]) > best.best_coverage
         THEN LET taken == [best_antenna |-> ANTENNA_TYPES_BY_CAPACITY[k],
                            best_assignment |-> assignments[k],
                            best_coverage |-> Len(assignments[k])]
              IN IF ANTENNA_TYPES_BY_CAPACITY[k] = "Nano" THEN taken
                 ELSE RgScan(k + 1, bid, assignments, taken)
         ELSE RgScan(k + 1, bid, assignments, best)

\* The antenna created for the target, given the sorted candidates of each type.
RgAntenna(bid, orders) ==
    LET b == BuildingMap(bid)
        assignments == [k \in DOMAIN ANTENNA_TYPES_BY_CAPACITY |->
                           MethodPack(orders[k],
                                      ANTENNA_TYPES[ANTENNA_TYPES_BY_CAPACITY[k]].capacity,
                                      <<>>, 0, 0, 0)]
        best == RgScan(1, bid, assignments,
                       [best_antenna |-> "None", best_assignment |-> <<>>, best_coverage |-> 0])
    IN IF best.best_antenna = "None"
       THEN [type |-> "MaxRange", x |-> b.x, y |-> b.y, buildings |-> <<bid>>]
       ELSE [type |-> best.best_antenna, x |-> b.x, y |-> b.y,
             buildings |-> best.best_assignment]

\* Buildings with demands less than 10 apart, small and large, and one no type can serve.
MethodPool ==
    {Building(0, 0, 0, 4000, 4000, 4000),
     Building(1, 100, 0, 3995, 3995, 3995),
     Building(2, 30, 0, 100, 50, 50),
     Building(3, 0, 40, 95, 95, 95),
     Building(4, 500, 0, 6000, 6000, 6000),
     Building(5, 60, 0, 10, 150, 10)}

\* A dataset handed to the methods.
InitMethods ==
    /\ buildings \in Datasets(MethodPool, MaxInputBuildings)
    /\ solution = <<>>
    /\ pc = "idle"
    /\ InitLocals

\* baseline_place_on_buildings.solve(dataset, seed=...)
CallBaselineSolve ==
    /\ pc = "idle"
    /\ call' = [fn |-> "baseline.solve"]
    /\ returned' = BaselineSolve
    /\ Completed("baseline.solve")
    /\ UNCHANGED <<buildings, antennas, uncovered, fallback, solution, solution_json, input0,
                   best_solution, best_is_input, best_cost, old_state, improved, op, steps,
                   prev_antennas, pc>>

-----------------------------------------------------------------------------
(* The feasibility invariants of a solution record *)

AssignedIds(sol) == Flatten([i \in DOMAIN sol |-> sol[i].buildings])

PartitionInvariant(sol) ==
    /\ Range(AssignedIds(sol)) = BuildingIds
    /\ \A i, j \in DOMAIN AssignedIds(sol) : i # j => AssignedIds(sol)[i] # AssignedIds(sol)[j]

TrueMaxLoad(bids) == Max3(SumOver(bids, PeakOf), SumOver(bids, OffpeakOf), SumOver(bids, NightOf))

CapacityInvariant(sol) ==
    \A i \in DOMAIN sol : TrueMaxLoad(sol[i].buildings) <= ANTENNA_TYPES[sol[i].type].capacity

RangeInvariant(sol) ==
    \A i \in DOMAIN sol : \A bid \in Range(sol[i].buildings) :
        DistSq(sol[i].x, sol[i].y, BuildingMap(bid).x, BuildingMap(bid).y)
            <= ANTENNA_TYPES[sol[i].type].range * ANTENNA_TYPES[sol[i].type].range

Feasible(sol) == PartitionInvariant(sol) /\ CapacityInvariant(sol) /\ RangeInvariant(sol)

SolutionCost(sol) ==
    SumOver([i \in DOMAIN sol |-> i], [i \in DOMAIN sol |-> CostAt(sol[i].type, sol[i].x, sol[i].y)])

Generated == pc = "idle" /\ last_op = "generate_candidate"

StepReturned == pc = "idle" /\ last_op = "step"

-----------------------------------------------------------------------------
(* Claims *)

\* C1: step on a solution that satisfies the partition, capacity and range
\* invariants returns a solution that satisfies all three.
C1_StepKeepsFeasible ==
    (StepReturned /\ Feasible(input0)) => Feasible(solution)

C1_Witness ==
    /\ StepReturned
    /\ Feasible(input0)
    /\ Len(solution) < Len(input0)
    /\ \E i \in DOMAIN solution : Len(solution[i].buildings) >= 2

\* C2: the solution step returns never costs more than the input, and it
\* differs from the input (as it was passed in) only when it costs strictly less.
C2_StepNeverRegresses ==
    StepReturned =>
        /\ SolutionCost(solution) <= SolutionCost(input0)
        /\ solution # input0 => SolutionCost(solution) < SolutionCost(input0)

\* C3: the solution generate_candidate returns is a partition of the
\* dataset's buildings, also when the fallback branch was taken.
C3_GeneratePartition ==
    Generated => PartitionInvariant(solution)

C3_Witness ==
    /\ Generated
    /\ fallback
    /\ Len(solution) >= 2
    /\ \E i \in DOMAIN solution : Len(solution[i].buildings) >= 2

\* C4: every antenna of the solution generate_candidate returns carries a
\* maximal period load within the capacity of its type, fallback antennas included.
C4_GenerateCapacity ==
    Generated => CapacityInvariant(solution)

\* C5: every building of the solution generate_candidate returns lies within
\* the squared range of its antenna, wherever the antenna was placed.
C5_GenerateRange ==
    Generated => RangeInvariant(solution)

C5_Witness ==
    /\ Generated
    /\ \E i \in DOMAIN solution :
          /\ <<solution[i].x, solution[i].y>> \notin BuildingPositions
          /\ Len(solution[i].buildings) = 5

\* C6: each live antenna's cached loads are the sums of the demands of
\* exactly the buildings in its list, after every method.
C6_LoadsMatchBuildings ==
    \A i \in DOMAIN antennas :
        /\ antennas[i].load_peak = SumOver(antennas[i].buildings, PeakOf)
        /\ antennas[i].load_offpeak = SumOver(antennas[i].buildings, OffpeakOf)
        /\ antennas[i].load_night = SumOver(antennas[i].buildings, NightOf)

C6_Witness ==
    /\ last_op = "_try_remove"
    /\ improved
    /\ Len(antennas) < Len(prev_antennas)
    /\ \E i \in DOMAIN antennas : \E j \in DOMAIN prev_antennas :
          /\ antennas[i].ref = prev_antennas[j].ref
          /\ antennas[i].ref # 0
          /\ Len(antennas[i].buildings) > Len(prev_antennas[j].buildings)

TypesOf(ants) == [i \in DOMAIN ants |-> ants[i].type]

\* C8: a second _try_optimize_type right after a first one changes no type
\* and reports no improvement.
C8_OptimizeTypeIdempotent ==
    (last_op = "_try_optimize_type" /\ prev_op = "_try_optimize_type") =>
        /\ ~improved
        /\ TypesOf(antennas) = TypesOf(prev_antennas)

C8_Witness ==
    /\ last_op = "_try_optimize_type"
    /\ prev_op = "_try_optimize_type"
    /\ Len(antennas) = Len(input0)
    /\ \E i \in DOMAIN antennas : antennas[i].type # input0[i].type

\* The situation of C9 in a list of two antennas.
C9_Premise(ants) ==
    /\ Len(ants) = 2
    /\ ants[1].type = "Spot"
    /\ ants[2].type = "Spot"
    /\ DistSq(ants[1].x, ants[1].y, ants[2].x, ants[2].y) <= MergeDistance * MergeDistance
    /\ MergeMaxLoad(ants, 1, 2) <= ANTENNA_TYPES["Density"].capacity
    /\ AllReachable(MergeCentroid(ants, 1, 2)[1], MergeCentroid(ants, 1, 2)[2], "Density",
                    MergedBuildings(ants, 1, 2))
    /\ AntennaCost(ants[1]) + AntennaCost(ants[2])
           > CostAt("Density", MergeCentroid(ants, 1, 2)[1], MergeCentroid(ants, 1, 2)[2])

C9_Merged(before, after) ==
    /\ Len(after) = 1
    /\ after[1].type = "Density"
    /\ <<after[1].x, after[1].y>> = MergeCentroid(before, 1, 2)
    /\ after[1].buildings = MergedBuildings(before, 1, 2)

\* C9 as stated: two Spot antennas at most 200 apart whose combined load fits
\* Density, whose buildings Density reaches from the centroid, and that cost
\* more than Density there, are replaced by one Density antenna.
C9_MergeToDensity ==
    (last_op = "_try_merge" /\ C9_Premise(prev_antennas)) =>
        (improved /\ C9_Merged(prev_antennas, antennas))

\* C9 amended: the same, when the combined maximal load also exceeds Spot's capacity.
C9_MergeToDensityAboveSpot ==
    (/\ last_op = "_try_merge"
     /\ C9_Premise(prev_antennas)
     /\ MergeMaxLoad(prev_antennas, 1, 2) > ANTENNA_TYPES["Spot"].capacity) =>
        (improved /\ C9_Merged(prev_antennas, antennas))

C9_Witness ==
    /\ last_op = "_try_merge"
    /\ C9_Premise(prev_antennas)
    /\ MergeMaxLoad(prev_antennas, 1, 2) > ANTENNA_TYPES["Spot"].capacity
    /\ Len(antennas) = 1

C10_Premise ==
    /\ \A i \in DOMAIN buildings : MaxDemand(buildings[i]) <= ANTENNA_TYPES["Nano"].capacity
    /\ \A i, j \in DOMAIN buildings :
          i # j => DistSq(buildings[i].x, buildings[i].y, buildings[j].x, buildings[j].y)
                       > ANTENNA_TYPES["MaxRange"].range * ANTENNA_TYPES["MaxRange"].range

\* C10: when every building's demand fits Nano and all buildings are more
\* than 400 apart, generate_candidate returns one Nano per building, on the
\* building and serving only it, for 5,000 per building.
C10_OneNanoPerBuilding ==
    (Generated /\ C10_Premise) =>
        /\ Len(solution) = Len(buildings)
        /\ \A i \in DOMAIN buildings : \E k \in DOMAIN solution :
              solution[k] = [type |-> "Nano", x |-> buildings[i].x, y |-> buildings[i].y,
                             buildings |-> <<buildings[i].id>>]
        /\ SolutionCost(solution) = 5000 * Len(buildings)

C10_Witness ==
    /\ Generated
    /\ C10_Premise
    /\ Len(buildings) >= 2

C11_Premise ==
    /\ Len(buildings) = 2
    /\ DistSq(buildings[1].x, buildings[1].y, buildings[2].x, buildings[2].y)
           <= ANTENNA_TYPES["Nano"].range * ANTENNA_TYPES["Nano"].range
    /\ buildings[1].peak + buildings[2].peak <= ANTENNA_TYPES["Nano"].capacity
    /\ buildings[1].offpeak + buildings[2].offpeak <= ANTENNA_TYPES["Nano"].capacity
    /\ buildings[1].night + buildings[2].night <= ANTENNA_TYPES["Nano"].capacity

\* C11: for two buildings at most 50 apart whose summed demand is at most 200
\* in every period, generate_candidate returns one Nano serving both.
C11_OneNanoForTwo ==
    (Generated /\ C11_Premise) =>
        /\ Len(solution) = 1
        /\ solution[1].type = "Nano"
        /\ Range(solution[1].buildings) = BuildingIds

C11_Witness ==
    /\ Generated
    /\ C11_Premise
    /\ MaxDemand(buildings[1]) + MaxDemand(buildings[2]) > ANTENNA_TYPES["Nano"].capacity

\* C12: nearby never misses a building: every building within the radius of
\* the query point is in the returned set.
C12_NearbyNeverMisses ==
    last_op = "nearby" =>
        \A i \in DOMAIN buildings :
            DistSq(call.x, call.y, buildings[i].x, buildings[i].y) <= call.radius * call.radius
                => buildings[i].id \in returned

C12_Witness ==
    /\ last_op = "nearby"
    /\ \E i \in DOMAIN buildings :
          /\ DistSq(call.x, call.y, buildings[i].x, buildings[i].y) <= call.radius * call.radius
          /\ Cell(buildings[i].x, buildings[i].y) # Cell(call.x, call.y)
          /\ buildings[i].x < 0
    /\ \E i \in DOMAIN buildings : buildings[i].id \notin returned

\* C13: a step keeps the change of at most one operator: no operator's result
\* is accepted once an earlier operator's result was accepted in the same step
\* (best_solution is the argument itself until the first acceptance).
C13_OneOperatorPerStep ==
    ~(pc = "judge" /\ Accepted /\ ~best_is_input)

\* The same antennas: types, positions, building sets and loads.
SameAntennas(a, b) ==
    /\ Len(a) = Len(b)
    /\ \A i \in DOMAIN a :
          /\ a[i].type = b[i].type
          /\ a[i].x = b[i].x
          /\ a[i].y = b[i].y
          /\ Range(a[i].buildings) = Range(b[i].buildings)
          /\ a[i].load_peak = b[i].load_peak
          /\ a[i].load_offpeak = b[i].load_offpeak
          /\ a[i].load_night = b[i].load_night

\* C14: when an operator of step reports success and its result is invalid
\* or not strictly cheaper than the best cost, the live antennas become again
\* what they were when the operator was entered.
C14_RejectedIsRestored ==
    [][(pc = "judge" /\ improved /\ ~Accepted) => SameAntennas(antennas', prev_antennas)]_vars

C14_Witness ==
    /\ pc = "return"
    /\ last_op = "_load_solution"
    /\ prev_op = "_try_remove"
    /\ solution_json # input0
    /\ SameAntennas(antennas, prev_antennas)

-----------------------------------------------------------------------------
(* The placement methods called on a dataset *)

\* randomized_greedy.solve(dataset, seed=..., params={'ordering': ...}): the
\* buildings are ordered.
RgBegin ==
    /\ pc = "idle"
    /\ \E ordering \in {"peak", "max", "random"} :
          \E sorted_buildings \in SortedBuildings(ordering) :
             call' = [fn |-> "randomized_greedy.solve", ordering |-> ordering,
                      sorted_buildings |-> sorted_buildings]
    /\ returned' = <<>>
    /\ pc' = "greedy"
    /\ UNCHANGED <<buildings, antennas, uncovered, fallback, solution, solution_json, input0,
                   best_solution, best_is_input, best_cost, old_state, improved, op, steps,
                   prev_antennas, last_op, prev_op>>

\* One iteration of the loop over sorted_buildings.
RgPlace ==
    /\ pc = "greedy"
    /\ call.sorted_buildings # <<>>
    /\ LET bid == Head(call.sorted_buildings)
           b == BuildingMap(bid)
           covered == CoveredBy(returned)
       IN IF bid \in covered
          THEN returned' = returned
          ELSE \E orders \in [DOMAIN ANTENNA_TYPES_BY_CAPACITY ->
                                 UNION {PriorityOrders(MethodCandidates(b.x, b.y,
                                            ANTENNA_TYPES_BY_CAPACITY[k], covered)) :
                                        k \in DOMAIN ANTENNA_TYPES_BY_CAPACITY}] :
                  /\ \A k \in DOMAIN ANTENNA_TYPES_BY_CAPACITY :
                        orders[k] \in PriorityOrders(MethodCandidates(b.x, b.y,
                                          ANTENNA_TYPES_BY_CAPACITY[k], covered))
                  /\ returned' = Append(returned, RgAntenna(bid, orders))
    /\ call' = [call EXCEPT !.sorted_buildings = Tail(@)]
    /\ UNCHANGED <<buildings, antennas, uncovered, fallback, solution, solution_json, input0,
                   best_solution, best_is_input, best_cost, old_state, improved, op, steps,
                   prev_antennas, last_op, prev_op, pc>>

\* The sanity check after the loop, and the return.
RgReturn ==
    /\ pc = "greedy"
    /\ call.sorted_buildings = <<>>
    /\ returned' = EmergencyFallback(returned)
    /\ pc' = "idle"
    /\ Completed("randomized_greedy.solve")
    /\ UNCHANGED <<buildings, antennas, uncovered, fallback, solution, solution_json, input0,
                   best_solution, best_is_input, best_cost, old_state, improved, op, steps,
                   prev_antennas, call>>

NextMethods == CallBaselineSolve \/ RgBegin \/ RgPlace \/ RgReturn

SpecMethods == InitMethods /\ [][NextMethods]_vars

\* Every antenna of the solution stands on the coordinates of a building.
OnBuildings(sol) ==
    \A i \in DOMAIN sol : \E b \in Range(buildings) : b.x = sol[i].x /\ b.y = sol[i].y

BaselineReturned == pc = "idle" /\ last_op = "baseline.solve"

\* C15: for every dataset the baseline's solution assigns every building to
\* exactly one antenna standing on a building, within its capacity and range.
C15_BaselineValid == BaselineReturned => Feasible(returned) /\ OnBuildings(returned)

GreedyReturned == pc = "idle" /\ last_op = "randomized_greedy.solve"

\* C16: for every dataset, ordering and outcome of the random priorities, the
\* solution of randomized_greedy assigns every building to exactly one antenna
\* within its capacity and range.
C16_RandomizedGreedyValid == GreedyReturned => Feasible(returned)

\* C17: _try_optimize_type changes an antenna's type only to a type that costs
\* strictly less at the antenna's position; with an equal cost the type is kept.
C17_TypeChangeStrictlyCheaper ==
    last_op = "_try_optimize_type" =>
        \A i \in DOMAIN antennas :
            antennas[i].type # prev_antennas[i].type =>
                CostAt(antennas[i].type, antennas[i].x, antennas[i].y)
                    < CostAt(prev_antennas[i].type, antennas[i].x, antennas[i].y)

\* C18: when _try_merge or _try_remove returns False, the antenna list is as
\* it was before the call: the same antennas in the same order, with the same
\* type, position, building list and loads.
C18_FailureLeavesAntennas ==
    (last_op \in {"_try_merge", "_try_remove"} /\ ~improved) => antennas = prev_antennas

\* A failed _try_remove on a list where some candidate found a target for its
\* first building and none for a later one.
C18_Witness ==
    /\ last_op = "_try_remove"
    /\ ~improved
    /\ Len(antennas) >= 2
    /\ antennas = prev_antennas
    /\ \E i \in DOMAIN prev_antennas :
          /\ ~RemovePlan(prev_antennas, i).ok
          /\ RemovePlan(prev_antennas, i).redistribution # <<>>

\* The pairs of ants, first index below second, at most 200 apart, whose merged
\* antenna is feasible and costs strictly less than the two together.
C19_Qualifying(ants) ==
    {p \in (DOMAIN ants) \X (DOMAIN ants) :
        /\ p[1] < p[2]
        /\ DistSq(ants[p[1]].x, ants[p[1]].y, ants[p[2]].x, ants[p[2]].y)
               <= MergeDistance * MergeDistance
        /\ PairMerges(ants, p[1], p[2])}

\* C19: _try_merge merges at most one pair per call, the first in index order
\* among the pairs at most 200 apart whose merged antenna is feasible and
\* strictly cheaper: those two antennas are removed, one antenna holding the
\* union of their buildings is appended, and the others are unchanged.
C19_FirstPairMerged ==
    last_op = "_try_merge" =>
        IF C19_Qualifying(prev_antennas) = {}
        THEN ~improved /\ antennas = prev_antennas
        ELSE \E p \in C19_Qualifying(prev_antennas) :
                /\ \A q \in C19_Qualifying(prev_antennas) :
                      p[1] < q[1] \/ (p[1] = q[1] /\ p[2] <= q[2])
                /\ improved
                /\ Len(antennas) = Len(prev_antennas) - 1
                /\ SubSeq(antennas, 1, Len(antennas) - 1)
                       = RemoveAt(RemoveAt(prev_antennas, p[2]), p[1])
                /\ Range(antennas[Len(antennas)].buildings)
                       = Range(prev_antennas[p[1]].buildings)
                             \cup Range(prev_antennas[p[2]].buildings)

\* A merge in a list of three antennas where two pairs qualified and the
\* first pair in index order did not.
C19_Witness ==
    /\ last_op = "_try_merge"
    /\ improved
    /\ Len(prev_antennas) = 3
    /\ Cardinality(C19_Qualifying(prev_antennas)) >= 2
    /\ <<1, 2>> \notin C19_Qualifying(prev_antennas)

\* The types whose capacity covers max_load.
C20_Enough(max_load) == {t \in Range(ANTENNA_ORDER) : ANTENNA_TYPES[t].capacity >= max_load}

\* The cheapest at (x, y) of the types whose capacity covers max_load, the
\* first of ANTENNA_ORDER when two cost the same ("None": no type covers it).
C20_CheapestType(max_load, x, y) ==
    LET cheapest == {k \in DOMAIN ANTENNA_ORDER :
                        /\ ANTENNA_ORDER[k] \in C20_Enough(max_load)
                        /\ \A u \in C20_Enough(max_load) :
                              CostAt(ANTENNA_ORDER[k], x, y) <= CostAt(u, x, y)}
    IN IF cheapest = {} THEN "None"
       ELSE ANTENNA_ORDER[CHOOSE k \in cheapest : \A l \in cheapest : k <= l]

\* The pairs of ants at most 200 apart whose cheapest covering type does not
\* reach every building of the union from the centroid.
C20_OutOfReach(ants) ==
    {p \in (DOMAIN ants) \X (DOMAIN ants) :
        /\ p[1] < p[2]
        /\ DistSq(ants[p[1]].x, ants[p[1]].y, ants[p[2]].x, ants[p[2]].y)
               <= MergeDistance * MergeDistance
        /\ LET c == MergeCentroid(ants, p[1], p[2])
               t == C20_CheapestType(MergeMaxLoad(ants, p[1], p[2]), c[1], c[2])
           IN t = "None" \/ ~AllReachable(c[1], c[2], t, MergedBuildings(ants, p[1], p[2]))}

\* C20: the antenna _try_merge creates has the cheapest type, at the centroid,
\* whose capacity covers the combined load, so it holds its load and reaches
\* every building of the union; a pair for which that type does not reach
\* every building is not merged.
C20_OnlyCheapestTypeTried ==
    last_op = "_try_merge" =>
        /\ improved =>
              LET m == antennas[Len(antennas)]
              IN /\ m.type = C20_CheapestType(TrueMaxLoad(m.buildings), m.x, m.y)
                 /\ TrueMaxLoad(m.buildings) <= ANTENNA_TYPES[m.type].capacity
                 /\ AllReachable(m.x, m.y, m.type, m.buildings)
        /\ \A p \in C20_OutOfReach(prev_antennas) :
              ~(/\ improved
                /\ antennas[Len(antennas)].buildings
                       = MergedBuildings(prev_antennas, p[1], p[2])
                /\ SubSeq(antennas, 1, Len(antennas) - 1)
                       = RemoveAt(RemoveAt(prev_antennas, p[2]), p[1]))

\* A _try_merge that merged nothing although, for a pair out of reach of its
\* cheapest covering type, MaxRange covers the load, reaches every building
\* from the centroid and costs less than the two antennas.
C20_Witness ==
    /\ last_op = "_try_merge"
    /\ ~improved
    /\ \E p \in C20_OutOfReach(prev_antennas) :
          LET c == MergeCentroid(prev_antennas, p[1], p[2])
          IN /\ MergeMaxLoad(prev_antennas, p[1], p[2]) <= ANTENNA_TYPES["MaxRange"].capacity
             /\ AllReachable(c[1], c[2], "MaxRange", MergedBuildings(prev_antennas, p[1], p[2]))
             /\ CostAt("MaxRange", c[1], c[2])
                    < AntennaCost(prev_antennas[p[1]]) + AntennaCost(prev_antennas[p[2]])

\* after is before without antenna i, every other antenna keeping its type and
\* position and holding its buildings followed by those planned for it.
C21_RemovedAt(before, after, i) ==
    /\ Len(after) = Len(before) - 1
    /\ RemovePlan(before, i).ok
    /\ \A j \in (DOMAIN before) \ {i} :
          LET k == IF j < i THEN j ELSE j - 1
          IN /\ after[k].type = before[j].type
             /\ after[k].x = before[j].x
             /\ after[k].y = before[j].y
             /\ after[k].buildings
                    = before[j].buildings \o MovedTo(RemovePlan(before, i).redistribution, j)

\* C21: after a successful _try_remove on antennas within capacity and range,
\* the list is the previous one without the removed antenna, each of its
\* buildings is held by the target planned for it and is within that target's
\* range, and every antenna's loads, moved buildings included, are within capacity.
C21_RemoveKeepsFeasible ==
    (/\ last_op = "_try_remove"
     /\ improved
     /\ CapacityInvariant(prev_antennas)
     /\ RangeInvariant(prev_antennas)) =>
        /\ \E i \in DOMAIN prev_antennas : C21_RemovedAt(prev_antennas, antennas, i)
        /\ CapacityInvariant(antennas)
        /\ RangeInvariant(antennas)

\* A successful removal from feasible antennas of an antenna with two
\* buildings standing before one of its targets in the list.
C21_Witness ==
    /\ last_op = "_try_remove"
    /\ improved
    /\ CapacityInvariant(prev_antennas)
    /\ RangeInvariant(prev_antennas)
    /\ \E i \in DOMAIN prev_antennas :
          /\ C21_RemovedAt(prev_antennas, antennas, i)
          /\ Len(prev_antennas[i].buildings) >= 2
          /\ \E r \in Range(RemovePlan(prev_antennas, i).redistribution) : r.target > i

-----------------------------------------------------------------------------
(* _try_remove on lists longer than its limit *)

MaxRemote == 9

MaxShuffled == 4

\* Three buildings 50 apart, two of them with the same demand.
ClusterPool ==
    {Building(0, 0, 0, 100, 100, 100),
     Building(1, 50, 0, 100, 100, 100),
     Building(2, 100, 0, 40, 100, 40)}

\* Small buildings 1000 apart, out of reach of the cluster and of each other.
RemoteBuildings(r) == [m \in 1..r |-> Building(2 + m, 1000 * m, 0, 10, 10, 10)]

\* One Nano on every remote building.
RemoteSolution(r) ==
    [m \in 1..r |-> [type |-> "Nano", x |-> 1000 * m, y |-> 0, buildings |-> <<2 + m>>]]

\* Nano, Spot or Density antennas on the buildings of the cluster.
ClusterSolutions(blds) ==
    {s \in UNION {SolutionsOf(blds, n) : n \in 1..MaxAntennas} :
        \A i \in DOMAIN s :
            /\ s[i].type \in {"Nano", "Spot", "Density"}
            /\ \E b \in Range(blds) : b.x = s[i].x /\ b.y = s[i].y}

\* A solver on the cluster and on none, nearly all or all the remote
\* buildings, and a solution whose remote antennas come last or first.
InitRemote ==
    /\ \E cluster \in Datasets(ClusterPool, MaxInputBuildings),
          r \in {0, MaxRemote - 1, MaxRemote} :
          /\ buildings = cluster \o RemoteBuildings(r)
          /\ \E s \in ClusterSolutions(cluster) :
                solution \in {s \o RemoteSolution(r), RemoteSolution(r) \o s}
    /\ pc = "idle"
    /\ InitLocals

Rotation(n, k) == [p \in 1..n |-> ((p + k - 1) % n) + 1]

\* The orders rng.shuffle is followed through: every order of a short list,
\* the rotations of the identity and of its reverse for a longer one.
ShuffleFamily(n) ==
    IF n <= MaxShuffled THEN Permutations(1..n)
    ELSE {Rotation(n, k) : k \in 0..(n - 1)} \cup {Reverse(Rotation(n, k)) : k \in 0..(n - 1)}

\* _try_remove, the shuffled order kept for inspection.
CallTryRemoveShuffled ==
    /\ pc = "loaded"
    /\ steps < MaxCalls
    /\ steps' = steps + 1
    /\ \E removable \in {RemovableSet(antennas)}, indices \in ShuffleFamily(Len(antennas)) :
       \E result \in {TryRemove(antennas, indices, removable)} :
          /\ antennas' = result.antennas
          /\ improved' = result.improved
          /\ solution_json' = Aliased(solution_json, result.antennas)
          /\ call' = [fn |-> "_try_remove", indices |-> indices]
    /\ prev_antennas' = antennas
    /\ Completed("_try_remove")
    /\ UNCHANGED <<buildings, solution, input0, best_solution, best_is_input,
                   best_cost, old_state, op, pc, uncovered, fallback, returned>>

NextRemove == CallLoadSolution \/ CallTryRemoveShuffled

SpecRemove == InitRemote /\ [][NextRemove]_vars

\* The index in the list before the removal of antenna i of the antenna that
\* holds bid after it.
C22_Target(after, i, bid) ==
    LET k == CHOOSE k \in DOMAIN after : bid \in Range(after[k].buildings)
    IN IF k < i THEN k ELSE k + 1

\* Every building of bids is held by the antenna of the largest margin, and of
\* the lowest index among equal margins, of those that reach it and stay within
\* capacity in the three periods; temp_loads are the running temporary loads.
RECURSIVE C22_Greedy(_, _, _, _, _)
C22_Greedy(before, after, i, bids, temp_loads) ==
    IF bids = <<>> THEN TRUE
    ELSE LET b == BuildingMap(Head(bids))
             j == C22_Target(after, i, b.id)
             capacity(t) == ANTENNA_TYPES[before[t].type].capacity
             range(t) == ANTENNA_TYPES[before[t].type].range
             fits(t) == /\ DistSq(before[t].x, before[t].y, b.x, b.y) <= range(t) * range(t)
                        /\ temp_loads[t].peak + b.peak <= capacity(t)
                        /\ temp_loads[t].offpeak + b.offpeak <= capacity(t)
                        /\ temp_loads[t].night + b.night <= capacity(t)
             margin(t) == capacity(t) - Max3(temp_loads[t].peak + b.peak,
                                             temp_loads[t].offpeak + b.offpeak,
                                             temp_loads[t].night + b.night)
         IN /\ j \in (DOMAIN before) \ {i}
            /\ fits(j)
            /\ \A t \in (DOMAIN before) \ {i} :
                  fits(t) => margin(j) > margin(t) \/ (margin(j) = margin(t) /\ j <= t)
            /\ C22_Greedy(before, after, i, Tail(bids),
                          [temp_loads EXCEPT ![j] = [peak |-> @.peak + b.peak,
                                                     offpeak |-> @.offpeak + b.offpeak,
                                                     night |-> @.night + b.night]])

\* The indices _try_remove may try: the first 10 of the shuffled order.
C22_Tried == {call.indices[k] : k \in 1..Min2(10, Len(call.indices))}

C22_Places(ants) == [k \in DOMAIN ants |-> <<ants[k].type, ants[k].x, ants[k].y>>]

\* C22: _try_remove tries at most the first 10 antennas of the shuffled order;
\* each building of the removed antenna goes to the antenna of the largest
\* margin among those that reach it and keep their temporary load within
\* capacity, the lowest index among equal margins.
C22_LargestMarginTarget ==
    (last_op = "_try_remove" /\ call.fn = "_try_remove") =>
        IF improved
        THEN \E i \in C22_Tried :
                /\ C22_Places(antennas) = RemoveAt(C22_Places(prev_antennas), i)
                /\ C22_Greedy(prev_antennas, antennas, i, prev_antennas[i].buildings,
                              TempLoads(prev_antennas, i))
        ELSE /\ antennas = prev_antennas
             /\ \A i \in C22_Tried : ~Removable(prev_antennas, i)

\* A failed _try_remove on more than 10 antennas of which one, beyond the
\* tenth of the shuffled order, could have been removed.
C22_Witness ==
    /\ last_op = "_try_remove"
    /\ call.fn = "_try_remove"
    /\ ~improved
    /\ \E k \in DOMAIN call.indices : k > 10 /\ Removable(prev_antennas, call.indices[k])

-----------------------------------------------------------------------------
(* generate_candidate with the sample of each round kept for inspection *)

\* One iteration of the loop that commits the best candidate.
GenCommitSampled ==
    /\ pc = "generate"
    /\ uncovered # {}
    /\ \E on_building \in {OnBuildingCandidates(SetToList(uncovered), uncovered)},
          on_centroid \in {CentroidCandidates(uncovered)},
          sampled \in Samples(uncovered) :
          LET cands == GenerateAntennaCandidates(sampled, uncovered, on_building, on_centroid)
              best == PickBest(cands, 1, 0)
          IN /\ best # 0
             /\ antennas' = AddAntenna(antennas, cands[best].type, cands[best].x, cands[best].y,
                                       SetToList(cands[best].covered))
             /\ uncovered' = uncovered \ cands[best].covered
             /\ call' = [fn |-> "_generate_antenna_candidates", sampled |-> sampled]
    /\ UNCHANGED <<buildings, fallback, solution, steps, last_op, prev_op, pc>>
    /\ UNCHANGED <<solution_json, input0, best_solution, best_is_input, best_cost, old_state,
                   improved, op, prev_antennas, returned>>

NextSampled == GenBegin \/ GenCommitSampled \/ GenFallback \/ GenReturn

\* A solver constructed on a dataset of the sparse pool.
InitSampled ==
    /\ buildings \in Datasets(SparsePool, MaxBuildings)
    /\ solution = <<>>
    /\ pc = "start"
    /\ InitLocals

SpecSampled == InitSampled /\ [][NextSampled]_vars

\* A round has just committed the last antenna of the list.
C23_Committed ==
    /\ pc = "generate"
    /\ ~fallback
    /\ antennas # <<>>
    /\ call.fn = "_generate_antenna_candidates"

\* The buildings that were uncovered when the round began.
C23_Uncovered == BuildingIds \ CoveredBy(SubSeq(antennas, 1, Len(antennas) - 1))

\* The candidates of the round in the order of their generation.
RECURSIVE C23_OnSampled(_, _)
C23_OnSampled(sampled, unc) ==
    IF sampled = <<>> THEN <<>>
    ELSE CandidatesAt(BuildingMap(Head(sampled)).x, BuildingMap(Head(sampled)).y,
                      <<"Nano", "Spot", "Density", "MaxRange">>, unc)
         \o C23_OnSampled(Tail(sampled), unc)

C23_Candidates ==
    C23_OnSampled(call.sampled, C23_Uncovered)
    \o (IF Cardinality(C23_Uncovered) >= 5
        THEN CandidatesAt(Centroid(C23_Uncovered)[1], Centroid(C23_Uncovered)[2],
                          <<"Spot", "Density", "MaxRange">>, C23_Uncovered)
        ELSE <<>>)

\* |covered| / cost of c is at least that of d, and equal to it.
C23_RatioAtLeast(c, d) ==
    Cardinality(c.covered) * CostAt(d.type, d.x, d.y)
        >= Cardinality(d.covered) * CostAt(c.type, c.x, c.y)

C23_RatioEqual(c, d) ==
    Cardinality(c.covered) * CostAt(d.type, d.x, d.y)
        = Cardinality(d.covered) * CostAt(c.type, c.x, c.y)

\* The place in cands of the first candidate of maximal ratio.
C23_First(cands) ==
    CHOOSE k \in DOMAIN cands :
        /\ \A l \in DOMAIN cands : C23_RatioAtLeast(cands[k], cands[l])
        /\ \A l \in 1..(k - 1) : ~C23_RatioEqual(cands[k], cands[l])

\* C23: the antenna a round of generate_candidate commits is the candidate of
\* maximal |covered| / cost, the first generated among equal ratios, and exactly
\* its covered buildings have left uncovered.
C23_BestRatioCommitted ==
    C23_Committed =>
        \E cands \in {C23_Candidates} :
           /\ cands # <<>>
           /\ \E c \in {cands[C23_First(cands)]}, m \in {antennas[Len(antennas)]} :
                 /\ m.type = c.type
                 /\ m.x = c.x
                 /\ m.y = c.y
                 /\ Range(m.buildings) = c.covered
                 /\ uncovered = C23_Uncovered \ c.covered

\* A round with centroid candidates in which a later candidate has the same
\* ratio as the committed one and covers other buildings.
C23_Witness ==
    /\ C23_Committed
    /\ Cardinality(C23_Uncovered) >= 5
    /\ \E cands \in {C23_Candidates} :
          \E k \in {C23_First(cands)} :
             \E l \in DOMAIN cands :
                /\ l > k
                /\ C23_RatioEqual(cands[l], cands[k])
                /\ cands[l].covered # cands[k].covered

-----------------------------------------------------------------------------
(* _find_coverable called directly *)

\* Buildings within 50 of each other that do not all fit one Nano, two of
\* them with the same maximal demand, and a building 100 away.
CoverPool ==
    {Building(0, 0, 0, 150, 10, 10),
     Building(1, 30, 0, 100, 100, 100),
     Building(2, 0, 40, 60, 60, 60),
     Building(3, 40, 30, 10, 150, 10),
     Building(4, 100, 0, 640, 640, 640),
     Building(5, 20, 20, 30, 30, 30)}

InitCoverable ==
    /\ buildings \in Datasets(CoverPool, MaxBuildings)
    /\ solution = <<>>
    /\ pc = "idle"
    /\ InitLocals

\* The positions asked about: every building's and one beside them.
CoverPoints == {<<b.x, b.y>> : b \in Range(buildings)} \cup {<<20, 10>>}

\* _find_coverable(x, y, ant_type, candidates)
CallFindCoverable ==
    /\ pc = "idle"
    /\ last_op = "none"
    /\ \E p \in CoverPoints, ant_type \in Range(ANTENNA_ORDER), candidates \in SUBSET BuildingIds :
          /\ call' = [fn |-> "_find_coverable", x |-> p[1], y |-> p[2], ant_type |-> ant_type,
                      candidates |-> candidates]
          /\ returned' = FindCoverable(p[1], p[2], ant_type, candidates)
    /\ Completed("_find_coverable")
    /\ UNCHANGED <<buildings, antennas, uncovered, fallback, solution, solution_json, input0,
                   best_solution, best_is_input, best_cost, old_state, improved, op, steps,
                   prev_antennas, pc>>

SpecCoverable == InitCoverable /\ [][CallFindCoverable]_vars

\* The candidates of the call within exact squared range of its position.
C24_InRange ==
    {bid \in call.candidates :
        DistSq(call.x, call.y, BuildingMap(bid).x, BuildingMap(bid).y)
            <= ANTENNA_TYPES[call.ant_type].range * ANTENNA_TYPES[call.ant_type].range}

\* C24: _find_coverable returns the candidates within exact squared range that
\* are added when visited by descending max_demand, each added when the three
\* running loads stay within capacity and skipped otherwise; the result holds
\* only candidates in range and its summed loads are within capacity.
C24_FindCoverableGreedy ==
    last_op = "_find_coverable" =>
        /\ returned = Range(MethodPack(SortDescByKey(SetToList(C24_InRange), DemandOf),
                                       ANTENNA_TYPES[call.ant_type].capacity, <<>>, 0, 0, 0))
        /\ returned \subseteq C24_InRange
        /\ TrueMaxLoad(SetToList(returned)) <= ANTENNA_TYPES[call.ant_type].capacity

\* A call that skipped a candidate in range and added a smaller one, with a
\* candidate out of range.
C24_Witness ==
    /\ last_op = "_find_coverable"
    /\ C24_InRange # call.candidates
    /\ \E big \in C24_InRange \ returned, small \in returned :
          MaxDemand(BuildingMap(small)) < MaxDemand(BuildingMap(big))

-----------------------------------------------------------------------------
(* generate_candidate run to its end *)

NextGenerate == GenBegin \/ GenCommit \/ GenFallback \/ GenReturn

\* What every iteration of the loop does to uncovered, whichever candidate it
\* commits: the steps of GenCommit and GenFallback, enabled when they are.
GenRound ==
    /\ pc = "generate"
    /\ uncovered # {}
    /\ uncovered' \in (SUBSET uncovered) \ {uncovered}
    /\ fallback' \in BOOLEAN
    /\ (antennas' = antennas \/ antennas' # antennas)
    /\ UNCHANGED <<buildings, solution, steps, last_op, prev_op, pc>>
    /\ UNCHANGED StepVars

\* The call runs on: it begins, the loop iterates while buildings are
\* uncovered, and it returns.
SpecGenerate ==
    /\ InitSampled
    /\ [][NextGenerate]_vars
    /\ WF_vars(GenBegin)
    /\ WF_vars(GenRound)
    /\ WF_vars(GenReturn)

\* C25: generate_candidate terminates: every round strictly shrinks uncovered,
\* the fallback empties it, and the call returns, with uncovered empty.
C25_GenerateTerminates ==
    /\ [][(pc = "generate" /\ pc' = "generate") =>
              /\ uncovered' \subseteq uncovered
              /\ uncovered' # uncovered
              /\ (fallback' => uncovered' = {})]_vars
    /\ [](Generated => uncovered = {})
    /\ <>Generated

\* A call returned after two committed rounds and the fallback.
C25_Witness ==
    /\ Generated
    /\ fallback
    /\ Len(antennas) >= 3
    /\ \E i \in DOMAIN antennas : Len(antennas[i].buildings) >= 2

\* Every building's maximal demand is within the capacity of some type.
C26_Premise ==
    \A b \in Range(buildings) :
        \E t \in Range(ANTENNA_ORDER) : MaxDemand(b) <= ANTENNA_TYPES[t].capacity

\* C26: when every building fits some type, every round of generate_candidate
\* has a candidate covering a building and the fallback branch is never taken.
C26_NoFallback == C26_Premise => ~fallback

\* A call returned without fallback on four buildings or more, one of which
\* does not fit a Nano.
C26_Witness ==
    /\ Generated
    /\ steps = 0
    /\ C26_Premise
    /\ ~fallback
    /\ Len(buildings) >= 4
    /\ Len(solution) >= 2
    /\ \E b \in Range(buildings) : MaxDemand(b) > ANTENNA_TYPES["Nano"].capacity

\* C27: step never modifies the solution record it was given: when it
\* returns, the record holds the antennas and building lists it held when it
\* was passed in.
C27_StepLeavesInput == StepReturned => solution_json = input0

\* C28: no operation of the solver changes a field of a Building record.
C28_BuildingsReadOnly == [][buildings' = buildings]_vars

-----------------------------------------------------------------------------
(* solution := step(solution), again and again *)

\* A solver constructed on a dataset, and a feasible solution record.
InitFeasible ==
    /\ buildings \in Datasets(StepPool, MaxInputBuildings)
    /\ solution \in {s \in InputSolutions(buildings) : Feasible(s)}
    /\ pc = "idle"
    /\ InitLocals

\* step is entered with the solution the previous call returned, however many
\* calls came before.
LoopBegin ==
    /\ pc = "idle"
    /\ solution_json' = solution
    /\ input0' = solution
    /\ \E loaded \in {LoadSolution(solution, TRUE)} :
          /\ antennas' = loaded
          /\ best_cost' = ComputeCost(loaded)
          /\ prev_antennas' = loaded
    /\ buildings' = AssignedAfterLoad(buildings, solution)
    /\ best_is_input' = TRUE
    /\ best_solution' = <<>>
    /\ old_state' = <<>>
    /\ improved' = FALSE
    /\ op' = 1
    /\ pc' = "operator"
    /\ Completed("_load_solution")
    /\ UNCHANGED <<solution, steps>>
    /\ UNCHANGED GenVars

\* A return that hands the antennas back in reverse order: C29 must fail with it.
LoopReturnReversed ==
    /\ pc = "return"
    /\ solution' = Reverse(IF best_is_input THEN solution_json ELSE best_solution)
    /\ best_solution' = <<>>
    /\ best_is_input' = FALSE
    /\ best_cost' = 0
    /\ old_state' = <<>>
    /\ improved' = FALSE
    /\ op' = 0
    /\ pc' = "idle"
    /\ Completed("step")
    /\ UNCHANGED <<buildings, antennas, solution_json, input0, prev_antennas, steps>>
    /\ UNCHANGED GenVars

\* step returns best_solution; the caller assigns it to solution.
LoopReturn ==
    /\ pc = "return"
    /\ solution' = IF best_is_input THEN solution_json ELSE best_solution
    /\ best_solution' = <<>>
    /\ best_is_input' = FALSE
    /\ best_cost' = 0
    /\ old_state' = <<>>
    /\ improved' = FALSE
    /\ op' = 0
    /\ pc' = "idle"
    /\ Completed("step")
    /\ UNCHANGED <<buildings, antennas, solution_json, input0, prev_antennas, steps>>
    /\ UNCHANGED GenVars

NextLoop ==
    LoopBegin \/ StepOptimizeType \/ StepMerge \/ StepRemove \/ StepJudge \/ LoopReturn

Whatever(after, before) == after = before \/ after # before

\* How every step of NextLoop moves the position in step, whatever it does to
\* the rest: step is entered, the three operators are run and judged in
\* turn, and step returns.
LoopAdvance ==
    /\ pc' = IF pc = "idle" THEN "operator"
             ELSE IF pc = "operator" THEN "judge"
             ELSE IF pc = "judge" THEN (IF op = 3 THEN "return" ELSE "operator")
             ELSE "idle"
    /\ op' = IF pc = "idle" THEN 1
             ELSE IF pc = "operator" THEN op
             ELSE IF pc = "judge" THEN op + 1
             ELSE 0
    /\ Whatever(buildings', buildings)
    /\ Whatever(antennas', antennas)
    /\ Whatever(solution', solution)
    /\ Whatever(solution_json', solution_json)
    /\ Whatever(input0', input0)
    /\ Whatever(best_solution', best_solution)
    /\ Whatever(best_is_input', best_is_input)
    /\ Whatever(best_cost', best_cost)
    /\ Whatever(old_state', old_state)
    /\ Whatever(improved', improved)
    /\ Whatever(last_op', last_op)
    /\ Whatever(prev_op', prev_op)
    /\ Whatever(prev_antennas', prev_antennas)
    /\ UNCHANGED <<steps, uncovered, fallback, call, returned>>

\* The loop of optimized_solution never stops: whatever the position, the
\* next step of NextLoop is taken.
SpecLoop == InitFeasible /\ [][NextLoop]_vars /\ WF_vars(LoopAdvance)

\* C29: in an unbounded sequence of calls of step from a feasible solution,
\* only finitely many return a solution different from their input, and every
\* call returns as many antennas as it was given or up to two fewer.
C29_EventuallyStable ==
    /\ <>[](StepReturned => solution = input0)
    /\ [](StepReturned => Len(solution) \in (Len(input0) - 2)..Len(input0))

\* A call that returned two antennas fewer than it was given.
C29_Witness ==
    /\ StepReturned
    /\ solution # input0
    /\ Len(solution) = Len(input0) - 2

-----------------------------------------------------------------------------
(* _is_valid_solution on a solution just loaded *)

\* The buildings of the step datasets at most one cell away from the first.
ValidPool == {b \in StepPool : b.x <= CellSize}

\* The record with building bid listed once more, at the end of antenna i.
ListedAgain(sol, i, bid) ==
    [sol EXCEPT ![i].buildings = Append(sol[i].buildings, bid)]

\* The records handed to _load_solution: the input solutions, and each of them
\* with one dataset building listed once more in one antenna (a building
\* listed twice by one antenna, by two antennas, or a building added).
LoadedInputs(blds) ==
    InputSolutions(blds) \cup
    {ListedAgain(sol, i, b.id) : sol \in InputSolutions(blds), i \in 1..MaxAntennas, b \in Range(blds)}

InitValid ==
    /\ buildings \in Datasets(ValidPool, MaxInputBuildings)
    /\ solution \in LoadedInputs(buildings)
    /\ pc = "idle"
    /\ InitLocals

\* self._is_valid_solution() right after _load_solution.
CallIsValidSolution ==
    /\ pc = "loaded"
    /\ last_op = "_load_solution"
    /\ call' = [fn |-> "_is_valid_solution"]
    /\ returned' = [valid |-> IsValidSolution(antennas)]
    /\ Completed("_is_valid_solution")
    /\ UNCHANGED <<buildings, antennas, uncovered, fallback, solution, solution_json, input0,
                   best_solution, best_is_input, best_cost, old_state, improved, op, steps,
                   prev_antennas, pc>>

NextValid == CallLoadSolution \/ CallIsValidSolution

SpecValid == InitValid /\ [][NextValid]_vars

ValidityReturned == last_op = "_is_valid_solution"

\* C30: on a loaded solution that lists dataset buildings only,
\* _is_valid_solution returns True exactly when the partition, the capacity and
\* the range invariants all hold for the solution.
C30_ValidExactlyWhenFeasible ==
    ValidityReturned => (returned.valid <=> Feasible(solution))

\* The check returned True for a solution of two antennas or more.
C30_Witness ==
    /\ ValidityReturned
    /\ returned.valid
    /\ Len(solution) >= 2

====
